---- MODULE Spec2Model ----
(***************************************************************************)
(* Sivana audio fingerprinter: the persistent fingerprint store            *)
(* (src/src/database.rs) with the fingerprint pipeline it calls            *)
(* (spectrogram.rs, peaks.rs, hashing.rs).                                 *)
(*                                                                         *)
(* The store is one SQLite database: table songs(song_id, name, file_path) *)
(* and table fingerprints(hash, song_id, anchor_time_idx).  The tables are *)
(* modelled as a set of rows (song_id is the primary key) and a bag of     *)
(* rows (the table has no key, equal rows may repeat).                     *)
(***************************************************************************)
EXTENDS Integers, Sequences, FiniteSets, Bags, TLC

VARIABLES
    schema,             \* TRUE once init_db has created the two tables
    songs,              \* rows of table songs
    fingerprints,       \* bag of rows of table fingerprints
    last_insert_rowid,  \* sqlite3_last_insert_rowid() of the connection
    call,               \* the last call made on the connection: its arguments and
                        \* the value it returned
    inflight            \* the calls in progress on further connections to the
                        \* same database file: their position and local values

vars == <<schema, songs, fingerprints, last_insert_rowid, call, inflight>>

----------------------------------------------------------------------------
(* Bounds of the model *)

MaxRows == 4        \* rows of table fingerprints
MaxId == 2          \* largest song_id handed out
MaxStart == 1       \* first frame of a query snippet inside its recording

(* Program constants *)

TARGET_ZONE_DT_MIN_FRAMES == 1
TARGET_ZONE_DT_MAX_FRAMES == 50
TARGET_ZONE_DF_ABS_MAX_BINS == 200
MAX_PAIRS_PER_ANCHOR == 5
HASH_FREQ_BITS == 10
HASH_DELTA_TIME_BITS == 8
MIN_MATCH_SCORE == 100

NULL == "NULL"      \* SQL NULL / Rust None for song_file_path

Max(S) == CHOOSE x \in S : \A y \in S : y <= x
Min2(a, b) == IF a < b THEN a ELSE b
saturating_sub(a, b) == IF a >= b THEN a - b ELSE 0
Abs(x) == IF x < 0 THEN -x ELSE x

----------------------------------------------------------------------------
(* spectrogram.rs: create_spectrogram.                                     *)
(* A sample buffer is [len, fft]: len is samples.len() and fft[i] is the   *)
(* vector of window_size magnitudes that rustfft leaves in the buffer for  *)
(* the Hann-windowed chunk that starts at sample (i-1)*hop_size.           *)

(* One frame for every hop that starts inside the samples. *)
create_spectrogram_every_hop(samples, window_size, hop_size) ==
    IF samples.len < window_size THEN <<>>
    ELSE LET num_frames == ((samples.len - 1) \div hop_size) + 1
             num_bins_to_keep == (window_size \div 2) + 1
         IN  [i \in 1..num_frames |-> SubSeq(samples.fft[i], 1, num_bins_to_keep)]

create_spectrogram(samples, window_size, hop_size) ==
    IF samples.len < window_size THEN <<>>
    ELSE LET num_frames == ((samples.len - window_size) \div hop_size) + 1
             num_bins_to_keep == (window_size \div 2) + 1
         IN  IF num_frames = 0 THEN <<>>
             ELSE [i \in 1..num_frames |-> SubSeq(samples.fft[i], 1, num_bins_to_keep)]

(* peaks.rs: find_peaks.  Indices are 0-based as in the source; S[t+1][f+1] *)
(* is spectrogram[t][f].                                                    *)

(* The comparisons of lines 53 and 57 over the bins of the frame alone. *)
is_local_max_in_frame(S, t_idx, f_idx, time_radius, freq_radius) ==
    LET num_freq_bins == Len(S[1])
        current_magnitude == S[t_idx + 1][f_idx + 1]
        f_start == saturating_sub(f_idx, freq_radius)
        f_end == Min2(f_idx + freq_radius + 1, num_freq_bins)
    IN  \A nf_idx \in f_start..(f_end - 1) :
            \/ nf_idx = f_idx
            \/ /\ ~(S[t_idx + 1][nf_idx + 1] > current_magnitude)
               /\ ~(S[t_idx + 1][nf_idx + 1] = current_magnitude /\ nf_idx < f_idx)

(* The comparison of line 53 alone, without the tie-break of line 57. *)
is_local_max_no_tie_break(S, t_idx, f_idx, time_radius, freq_radius) ==
    LET num_frames == Len(S)
        num_freq_bins == Len(S[1])
        current_magnitude == S[t_idx + 1][f_idx + 1]
        t_start == saturating_sub(t_idx, time_radius)
        t_end == Min2(t_idx + time_radius + 1, num_frames)
        f_start == saturating_sub(f_idx, freq_radius)
        f_end == Min2(f_idx + freq_radius + 1, num_freq_bins)
    IN  \A nt_idx \in t_start..(t_end - 1) : \A nf_idx \in f_start..(f_end - 1) :
            \/ (nt_idx = t_idx /\ nf_idx = f_idx)
            \/ ~(S[nt_idx + 1][nf_idx + 1] > current_magnitude)

is_local_max(S, t_idx, f_idx, time_radius, freq_radius) ==
    LET num_frames == Len(S)
        num_freq_bins == Len(S[1])
        current_magnitude == S[t_idx + 1][f_idx + 1]
        t_start == saturating_sub(t_idx, time_radius)
        t_end == Min2(t_idx + time_radius + 1, num_frames)
        f_start == saturating_sub(f_idx, freq_radius)
        f_end == Min2(f_idx + freq_radius + 1, num_freq_bins)
    IN  \A nt_idx \in t_start..(t_end - 1) : \A nf_idx \in f_start..(f_end - 1) :
            \/ (nt_idx = t_idx /\ nf_idx = f_idx)
            \/ /\ ~(S[nt_idx + 1][nf_idx + 1] > current_magnitude)
               /\ ~(/\ S[nt_idx + 1][nf_idx + 1] = current_magnitude
                    /\ (nt_idx < t_idx \/ (nt_idx = t_idx /\ nf_idx < f_idx)))

(* The loops of lines 34-35 nested the other way: bin by bin, frame by      *)
(* frame within a bin.                                                      *)
peaks_from_bin_major(S, cell, time_radius, freq_radius, min_magnitude_threshold) ==
    LET num_frames == Len(S)
        t_of(c) == c % num_frames
        f_of(c) == c \div num_frames
        cells == [i \in 1..((num_frames * Len(S[1])) - cell) |-> cell + i - 1]
        pushed(c) ==
            /\ ~(S[t_of(c) + 1][f_of(c) + 1] < min_magnitude_threshold)
            /\ is_local_max(S, t_of(c), f_of(c), time_radius, freq_radius)
        kept == SelectSeq(cells, pushed)
    IN  [i \in 1..Len(kept) |->
            [time_idx |-> t_of(kept[i]), freq_bin_idx |-> f_of(kept[i]),
             magnitude |-> S[t_of(kept[i]) + 1][f_of(kept[i]) + 1]]]

(* The loops of lines 34-75 from cell number cell on (cell = t_idx *       *)
(* num_freq_bins + f_idx): the cells are visited frame by frame, bin by bin *)
(* within a frame, and every cell that passes the tests is pushed.          *)
peaks_from(S, cell, time_radius, freq_radius, min_magnitude_threshold) ==
    LET num_freq_bins == Len(S[1])
        t_of(c) == c \div num_freq_bins
        f_of(c) == c % num_freq_bins
        cells == [i \in 1..((Len(S) * num_freq_bins) - cell) |-> cell + i - 1]
        pushed(c) ==
            /\ ~(S[t_of(c) + 1][f_of(c) + 1] < min_magnitude_threshold)
            /\ is_local_max(S, t_of(c), f_of(c), time_radius, freq_radius)
        kept == SelectSeq(cells, pushed)
    IN  [i \in 1..Len(kept) |->
            [time_idx |-> t_of(kept[i]), freq_bin_idx |-> f_of(kept[i]),
             magnitude |-> S[t_of(kept[i]) + 1][f_of(kept[i]) + 1]]]

find_peaks(S, time_radius, freq_radius, min_magnitude_threshold) ==
    IF S = <<>> \/ S[1] = <<>> THEN <<>>
    ELSE peaks_from(S, 0, time_radius, freq_radius, min_magnitude_threshold)

(* hashing.rs: create_hashes.  The three masked fields occupy disjoint bits, *)
(* so the bitwise OR of the shifted fields is their sum.                     *)

(* The fields shifted into place without the masks of lines 58-60. *)
robust_hash_val_unmasked(f1, f2, dt) ==
    (f1 * (2 ^ (HASH_FREQ_BITS + HASH_DELTA_TIME_BITS)))
    + (f2 * (2 ^ HASH_DELTA_TIME_BITS))
    + dt

robust_hash_val(f1, f2, dt) ==
    LET f1_masked == f1 % (2 ^ HASH_FREQ_BITS)
        f2_masked == f2 % (2 ^ HASH_FREQ_BITS)
        dt_masked == dt % (2 ^ HASH_DELTA_TIME_BITS)
    IN  (f1_masked * (2 ^ (HASH_FREQ_BITS + HASH_DELTA_TIME_BITS)))
        + (f2_masked * (2 ^ HASH_DELTA_TIME_BITS))
        + dt_masked

(* The scan for one anchor with break in the place of continue (48-52). *)
RECURSIVE pairs_for_anchor_break(_, _, _, _, _, _, _, _)
pairs_for_anchor_break(peaks, i, j, pairs_found, dt_min, dt_max, df_max, max_pairs) ==
    IF j > Len(peaks) \/ pairs_found >= max_pairs THEN <<>>
    ELSE LET anchor_peak == peaks[i]
             target_peak == peaks[j]
             delta_time_frames == saturating_sub(target_peak.time_idx, anchor_peak.time_idx)
             delta_freq_bins_abs == Abs(target_peak.freq_bin_idx - anchor_peak.freq_bin_idx)
         IN  IF \/ delta_time_frames < dt_min
                \/ delta_time_frames > dt_max
                \/ delta_freq_bins_abs > df_max
             THEN <<>>
             ELSE <<[hash |-> robust_hash_val(anchor_peak.freq_bin_idx,
                                              target_peak.freq_bin_idx,
                                              delta_time_frames),
                     anchor_time_idx |-> anchor_peak.time_idx]>>
                  \o pairs_for_anchor_break(peaks, i, j + 1, pairs_found + 1,
                                            dt_min, dt_max, df_max, max_pairs)

(* The scan for one anchor with the time of the target peak, not the time  *)
(* difference of line 46, encoded in the hash.                              *)
RECURSIVE pairs_for_anchor_absolute_time(_, _, _, _, _, _, _, _)
pairs_for_anchor_absolute_time(peaks, i, j, pairs_found, dt_min, dt_max, df_max, max_pairs) ==
    IF j > Len(peaks) \/ pairs_found >= max_pairs THEN <<>>
    ELSE LET anchor_peak == peaks[i]
             target_peak == peaks[j]
             delta_time_frames == saturating_sub(target_peak.time_idx, anchor_peak.time_idx)
             delta_freq_bins_abs == Abs(target_peak.freq_bin_idx - anchor_peak.freq_bin_idx)
         IN  IF \/ delta_time_frames < dt_min
                \/ delta_time_frames > dt_max
                \/ delta_freq_bins_abs > df_max
             THEN pairs_for_anchor_absolute_time(peaks, i, j + 1, pairs_found,
                                                 dt_min, dt_max, df_max, max_pairs)
             ELSE <<[hash |-> robust_hash_val(anchor_peak.freq_bin_idx,
                                              target_peak.freq_bin_idx,
                                              target_peak.time_idx),
                     anchor_time_idx |-> anchor_peak.time_idx]>>
                  \o pairs_for_anchor_absolute_time(peaks, i, j + 1, pairs_found + 1,
                                                    dt_min, dt_max, df_max, max_pairs)

RECURSIVE pairs_for_anchor(_, _, _, _, _, _, _, _)
pairs_for_anchor(peaks, i, j, pairs_found, dt_min, dt_max, df_max, max_pairs) ==
    IF j > Len(peaks) \/ pairs_found >= max_pairs THEN <<>>
    ELSE LET anchor_peak == peaks[i]
             target_peak == peaks[j]
             delta_time_frames == saturating_sub(target_peak.time_idx, anchor_peak.time_idx)
             delta_freq_bins_abs == Abs(target_peak.freq_bin_idx - anchor_peak.freq_bin_idx)
         IN  IF \/ delta_time_frames < dt_min
                \/ delta_time_frames > dt_max
                \/ delta_freq_bins_abs > df_max
             THEN pairs_for_anchor(peaks, i, j + 1, pairs_found, dt_min, dt_max, df_max, max_pairs)
             ELSE <<[hash |-> robust_hash_val(anchor_peak.freq_bin_idx,
                                              target_peak.freq_bin_idx,
                                              delta_time_frames),
                     anchor_time_idx |-> anchor_peak.time_idx]>>
                  \o pairs_for_anchor(peaks, i, j + 1, pairs_found + 1,
                                      dt_min, dt_max, df_max, max_pairs)

RECURSIVE hashes_from(_, _, _, _, _, _)
hashes_from(peaks, i, dt_min, dt_max, df_max, max_pairs) ==
    IF i > Len(peaks) THEN <<>>
    ELSE pairs_for_anchor(peaks, i, i + 1, 0, dt_min, dt_max, df_max, max_pairs)
         \o hashes_from(peaks, i + 1, dt_min, dt_max, df_max, max_pairs)

create_hashes(peaks, dt_min_frames, dt_max_frames, df_abs_max_bins, max_pairs_per_anchor) ==
    IF Len(peaks) < 2 THEN <<>>
    ELSE hashes_from(peaks, 1, dt_min_frames, dt_max_frames,
                     df_abs_max_bins, max_pairs_per_anchor)

----------------------------------------------------------------------------
(* The arguments main.rs passes with every call, and the recordings used.  *)
(* main.rs has FFT_WINDOW_SIZE = 2048 and FFT_HOPSIZE = 1024 (27-28); the   *)
(* recordings here are cut in windows of 4 samples with hop 2, the same     *)
(* half-window overlap.  spec_peak_params and hashing_params are those of   *)
(* lines 42-48.                                                             *)

stft_params == [window_size |-> 4, hop_size |-> 2]
spec_peak_params == <<2, 5, 2>>
hashing_params == <<TARGET_ZONE_DT_MIN_FRAMES, TARGET_ZONE_DT_MAX_FRAMES,
                    TARGET_ZONE_DF_ABS_MAX_BINS, MAX_PAIRS_PER_ANCHOR>>

(* The magnitudes of a real signal's FFT of size 4: bins 0, 1, 2 and the   *)
(* mirror of bin 1.                                                        *)
Frame(b0, b1, b2) == <<b0, b1, b2, b1>>
Silence == Frame(0, 0, 0)
Tone == Frame(0, 5, 0)
HighTone == Frame(0, 0, 5)

ClipNames == {"short", "quiet", "one", "A", "B"}

Samples(clip) ==
    CASE clip = "short" -> [len |-> 3, fft |-> <<>>]
      [] clip = "quiet" -> [len |-> 6, fft |-> <<Frame(1, 1, 1), Frame(1, 1, 1)>>]
      [] clip = "one"   -> [len |-> 4, fft |-> <<Tone>>]
      [] clip = "A"     -> [len |-> 10, fft |-> <<Tone, Silence, Silence, Tone>>]
      [] clip = "B"     -> [len |-> 16, fft |-> <<HighTone, Silence, Silence, HighTone,
                                                  Silence, Silence, HighTone>>]

(* main.rs 166-173: the slice of a recording that starts at a frame boundary. *)
Snippet(samples, start_frame) ==
    LET start == start_frame * stft_params.hop_size
    IN  IF start >= samples.len THEN [len |-> 0, fft |-> <<>>]
        ELSE [len |-> samples.len - start,
              fft |-> SubSeq(samples.fft, start_frame + 1, Len(samples.fft))]

(* The three pipeline stages as enroll_song (139-147) and main (177-181)  *)
(* chain them: the spectrogram, the peaks and the fingerprints of a buffer. *)
Stages(samples) ==
    LET spectrogram == create_spectrogram(samples, stft_params.window_size,
                                          stft_params.hop_size)
        peaks == find_peaks(spectrogram, spec_peak_params[1], spec_peak_params[2],
                            spec_peak_params[3])
    IN  [spectrogram |-> spectrogram,
         peaks |-> peaks,
         fingerprints |-> create_hashes(peaks, hashing_params[1], hashing_params[2],
                                        hashing_params[3], hashing_params[4])]

(* The stages of every recording and of every snippet of it, computed once. *)
ClipStages == [clip \in ClipNames |-> Stages(Samples(clip))]
SnippetStages ==
    [clip \in ClipNames |-> [k \in 0..MaxStart |-> Stages(Snippet(Samples(clip), k))]]

----------------------------------------------------------------------------
(* database.rs: the store.                                                 *)

Names == {"x", "y"}
Paths == {"a.mp3", "b.mp3"}

(* A connection opened without the pragma: SQLite's default. *)
foreign_keys_default == FALSE

(* open_db_connection (34-43) sets PRAGMA foreign_keys = ON on the connection. *)
foreign_keys == TRUE

SongIds(S) == {r.song_id : r \in S}

(* song_id INTEGER PRIMARY KEY without AUTOINCREMENT (50): a new row gets  *)
(* the largest rowid in the table plus one.                                *)
NewRowid(S) == IF S = {} THEN 1 ELSE Max(SongIds(S)) + 1

(* The statement of lines 91-92: INSERT INTO songs ... ON CONFLICT(file_path) *)
(* DO UPDATE SET name = excluded.name.  file_path is UNIQUE (52) and NULLs    *)
(* never conflict.  inserted is the rowid of the inserted row, 0 on update.   *)
UpsertSong(S, song_name, song_file_path) ==
    IF song_file_path # NULL /\ \E r \in S : r.file_path = song_file_path
    THEN [songs |-> {IF r.file_path = song_file_path
                     THEN [r EXCEPT !.name = song_name] ELSE r : r \in S},
          inserted |-> 0]
    ELSE [songs |-> S \cup {[song_id |-> NewRowid(S), name |-> song_name,
                             file_path |-> song_file_path]},
          inserted |-> NewRowid(S)]

(* rusqlite's Connection::execute, called at line 90 with a statement that *)
(* ends in RETURNING song_id.  The statement is stepped once: every change *)
(* is made by that step, which then yields the RETURNING row (SQLITE_ROW); *)
(* execute answers a statement that yields a row with                      *)
(* Err(ExecuteReturnedResults) and resets it, which in autocommit mode     *)
(* keeps the change.  Without the tables the statement does not prepare.   *)
execute(db_schema, S, rowid, song_name, song_file_path) ==
    IF ~db_schema
    THEN [result |-> "Err", songs |-> S, rowid |-> rowid]
    ELSE LET u == UpsertSong(S, song_name, song_file_path)
             step == "SQLITE_ROW"
         IN  [result |-> IF step = "SQLITE_DONE" THEN "Ok" ELSE "Err",
              songs |-> u.songs,
              rowid |-> IF u.inserted # 0 THEN u.inserted ELSE rowid]

(* SELECT song_id FROM songs WHERE file_path = ?1 (99-103, 119-123). *)
select_song_id(db_schema, S, p) ==
    IF ~db_schema THEN [result |-> "Err"]
    ELSE IF \E r \in S : r.file_path = p
         THEN [result |-> "Some", id |-> (CHOOSE r \in S : r.file_path = p).song_id]
         ELSE [result |-> "None"]

(* The Ok arm of line 95 taken whatever execute answered. *)
db_song_id_last_insert(exec, db_schema, song_file_path) ==
    [ok |-> TRUE, id |-> exec.rowid]

(* Lines 90-115: the id taken from the upsert. *)
db_song_id(exec, db_schema, song_file_path) ==
    IF exec.result = "Ok"
    THEN [ok |-> TRUE, id |-> exec.rowid]
    ELSE IF song_file_path # NULL
         THEN LET sel == select_song_id(db_schema, exec.songs, song_file_path)
              IN  IF sel.result = "Some" THEN [ok |-> TRUE, id |-> sel.id]
                  ELSE IF sel.result = "None"
                       THEN [ok |-> FALSE, err |-> "Failed to insert or find song"]
                       ELSE [ok |-> FALSE, err |-> "Failed to insert song and failed to select"]
         ELSE [ok |-> FALSE, err |-> "Failed to insert song (no file_path)"]

(* Lines 118-131: the fallback when the id is 0. *)
final_song_id_db(id, db_schema, S, song_file_path) ==
    IF id = 0 /\ song_file_path # NULL
    THEN LET sel == select_song_id(db_schema, S, song_file_path)
         IN  IF sel.result = "Some" THEN [ok |-> TRUE, id |-> sel.id]
             ELSE [ok |-> FALSE, err |-> "Failed to get song_id after presumed conflict"]
    ELSE IF id = 0 /\ song_file_path = NULL
         THEN [ok |-> FALSE, err |-> "Failed to obtain a valid song_id"]
         ELSE [ok |-> TRUE, id |-> id]

(* Line 134: final_song_id_db as SongId (u32): the low 32 bits, taken as two *)
(* 16-bit halves.                                                           *)
song_id_u32(id) == (id % (2 ^ 16)) + ((2 ^ 16) * ((id \div (2 ^ 16)) % (2 ^ 16)))

(* Lines 155-158: the insert loop.  Each row carries final_song_id_db; with *)
(* foreign_keys on, a row whose song_id is not in songs is refused.  fail   *)
(* is the index of the insert that the store fails (0: none).  The result   *)
(* is the table as the transaction sees it and whether every insert passed. *)
Row(fp, id) == [hash |-> fp.hash, song_id |-> id, anchor_time_idx |-> fp.anchor_time_idx]

(* The inserts lo..hi of the loop, in order: the first half, then, when    *)
(* every insert of it passed, the second half.                              *)
RECURSIVE insert_range(_, _, _, _, _, _, _)
insert_range(table, S, fps, lo, hi, id, fail) ==
    IF lo > hi THEN [ok |-> TRUE, table |-> table]
    ELSE IF lo = hi
         THEN IF lo = fail \/ (foreign_keys /\ id \notin SongIds(S))
              THEN [ok |-> FALSE, table |-> table]
              ELSE [ok |-> TRUE, table |-> table (+) SetToBag({Row(fps[lo], id)})]
         ELSE LET mid == (lo + hi) \div 2
                  first_half == insert_range(table, S, fps, lo, mid, id, fail)
              IN  IF ~first_half.ok THEN first_half
                  ELSE insert_range(first_half.table, S, fps, mid + 1, hi, id, fail)

insert_fingerprints(table, S, fps, k, id, fail) ==
    insert_range(table, S, fps, k, Len(fps), id, fail)

(* The inserts run in autocommit mode, outside any transaction. *)
transaction_autocommit(before, staged, committed) == staged

(* Lines 151-160: conn.transaction() ... tx.commit().  A Transaction that  *)
(* is dropped without a successful commit rolls back.                      *)
transaction(before, staged, committed) ==
    IF committed THEN staged ELSE before

(* The store may fail the last insert of the loop, or the commit. *)
Faults == {"none", "insert", "commit"}

FailIndex(fault, n) == IF fault = "insert" THEN n ELSE 0

(* enroll_song (74-164): the store after the call and the value returned.  *)
(* stages holds what lines 139-147 compute from song_audio_samples.        *)
enroll_song(db_schema, S, table, rowid, song_name, song_file_path, stages, fault) ==
    LET exec == execute(db_schema, S, rowid, song_name, song_file_path)
        first == db_song_id(exec, db_schema, song_file_path)
        final == IF first.ok
                 THEN final_song_id_db(first.id, db_schema, exec.songs, song_file_path)
                 ELSE first
        spectrogram == stages.spectrogram
        peaks == stages.peaks
        fps == stages.fingerprints
        ins == insert_fingerprints(table, exec.songs, fps, 1, final.id,
                                   FailIndex(fault, Len(fps)))
        committed == ins.ok /\ fault # "commit"
        out(ret, tbl) == [songs |-> exec.songs, fingerprints |-> tbl,
                          rowid |-> exec.rowid, ret |-> ret]
        Err(msg) == [ok |-> FALSE, err |-> msg]
    IN  IF ~final.ok THEN out(final, table)
        ELSE IF spectrogram = <<>> THEN out(Err("Failed to generate spectrogram"), table)
        ELSE IF peaks = <<>> THEN out(Err("No peaks found"), table)
        ELSE IF fps = <<>> THEN out(Err("No fingerprints generated"), table)
        ELSE IF ~ins.ok
             THEN out(Err("Failed to insert fingerprint"),
                      transaction(table, ins.table, FALSE))
        ELSE IF ~committed
             THEN out(Err("Failed to commit transaction"),
                      transaction(table, ins.table, FALSE))
        ELSE out([ok |-> TRUE, id |-> song_id_u32(final.id)],
                 transaction(table, ins.table, TRUE))

----------------------------------------------------------------------------
(* Actions *)

NoCall == [op |-> "open"]

(* The connections that run calls step by step, none of them in a call. *)
Conns == {"c1", "c2"}
Idle == [pc |-> "idle"]
NoneInFlight ==
    [base |-> [songs |-> {}, fingerprints |-> EmptyBag], calls |-> [c \in Conns |-> Idle]]

Init ==
    /\ schema = FALSE
    /\ songs = {}
    /\ fingerprints = EmptyBag
    /\ last_insert_rowid = 0
    /\ call = NoCall
    /\ inflight = NoneInFlight

(* init_db (46-68): CREATE TABLE IF NOT EXISTS, twice. *)
InitDb ==
    /\ schema' = TRUE
    /\ call' = [op |-> "init_db"]
    /\ UNCHANGED <<songs, fingerprints, last_insert_rowid, inflight>>

EnrollStep(song_name, song_file_path, clip, fault) ==
    \E r \in {enroll_song(schema, songs, fingerprints, last_insert_rowid,
                           song_name, song_file_path, ClipStages[clip], fault)} :
        /\ \A id \in SongIds(r.songs) : id <= MaxId
        /\ BagCardinality(r.fingerprints) <= MaxRows
        /\ songs' = r.songs
        /\ fingerprints' = r.fingerprints
        /\ last_insert_rowid' = r.rowid
        /\ call' = [op |-> "enroll", name |-> song_name, path |-> song_file_path,
                    clip |-> clip, ret |-> r.ret,
                    existed |-> \E row \in songs : row.file_path = song_file_path,
                    repeat |-> /\ call.op = "enroll"
                               /\ call.ret.ok
                               /\ call.name = song_name
                               /\ call.path = song_file_path
                               /\ call.clip = clip]
        /\ UNCHANGED <<schema, inflight>>

Enroll ==
    \E song_name \in Names, song_file_path \in Paths \cup {NULL},
       clip \in ClipNames :
        \E fault \in IF ClipStages[clip].fingerprints = <<>> THEN {"none"} ELSE Faults :
            EnrollStep(song_name, song_file_path, clip, fault)

(* DELETE FROM songs WHERE song_id = id, against the schema of init_db:    *)
(* fingerprints.song_id REFERENCES songs(song_id) ON DELETE CASCADE (59).  *)
delete_song(S, table, id) ==
    LET kept == {row \in BagToSet(table) : ~foreign_keys \/ row.song_id # id}
    IN  [songs |-> {r \in S : r.song_id # id},
         fingerprints |-> [row \in kept |-> table[row]]]

DeleteSong ==
    \E r \in songs :
        LET d == delete_song(songs, fingerprints, r.song_id)
        IN  /\ songs' = d.songs
            /\ fingerprints' = d.fingerprints
            /\ call' = [op |-> "delete", id |-> r.song_id,
                        rows |-> Cardinality({row \in DOMAIN fingerprints :
                                                 row.song_id = r.song_id})]
            /\ UNCHANGED <<schema, last_insert_rowid, inflight>>

Next == InitDb \/ Enroll \/ DeleteSong

Spec == Init /\ [][Next]_vars

----------------------------------------------------------------------------
(* database.rs: query_db_and_match (168-267).                              *)

(* Option<MatchResult>: <<>> is None, <<m>> is Some(m). *)
None == <<>>
Some(m) == <<m>>

(* The statement without its WHERE clause. *)
lookup_all(table, hash) == table

(* SELECT song_id, anchor_time_idx FROM fingerprints WHERE hash = ?1 (184, *)
(* 194): the rows of the table with that hash, each as often as stored.    *)
lookup(table, hash) ==
    LET hit == {row \in BagToSet(table) : row.hash = hash}
    IN  [row \in hit |-> table[row]]

RECURSIVE SumCopies(_, _)
SumCopies(bag, rows) ==
    IF rows = {} THEN 0
    ELSE LET row == CHOOSE r \in rows : TRUE
         IN  bag[row] + SumCopies(bag, rows \ {row})

(* The offset computed in usize, where a negative difference saturates. *)
count_hits_unsigned(H, hits, q_fp) ==
    LET entry(row) == <<song_id_u32(row.song_id),
                        saturating_sub(row.anchor_time_idx, q_fp.anchor_time_idx)>>
        entries == {entry(row) : row \in DOMAIN hits}
    IN  H (+) [e \in entries |-> SumCopies(hits, {row \in DOMAIN hits : entry(row) = e})]

(* offset_histograms: HashMap<SongId, HashMap<isize, usize>> (181) is the  *)
(* bag of pairs <<song_id, time_offset_delta>>: H[<<s, d>>] is the count   *)
(* the maps hold for song s at offset d, and a pair is in the bag exactly  *)
(* when the maps have that entry.                                          *)
(* Lines 198-204 for one query fingerprint: every row returned adds one to *)
(* offset_histograms[db_song_id][time_offset_delta].                       *)
count_hits(H, hits, q_fp) ==
    LET entry(row) == <<song_id_u32(row.song_id),
                        row.anchor_time_idx - q_fp.anchor_time_idx>>
        entries == {entry(row) : row \in DOMAIN hits}
    IN  H (+) [e \in entries |-> SumCopies(hits, {row \in DOMAIN hits : entry(row) = e})]

(* stmt.query_map (194-196): Err when the statement fails to run, else the  *)
(* rows of the lookup.                                                      *)
query_map(table, hash, fail) ==
    IF fail THEN [ok |-> FALSE, err |-> "Error executing fingerprint query"]
    ELSE [ok |-> TRUE, rows |-> lookup(table, hash)]

(* A lookup error that discards what the loop has counted. *)
lookup_step_abort(H, result, q_fp) ==
    IF result.ok THEN count_hits(H, result.rows, q_fp) ELSE EmptyBag

(* Lines 194-215, the match on the result of query_map: the Ok arm counts   *)
(* the rows, the Err arm prints and goes on to the next fingerprint.        *)
lookup_step(H, result, q_fp) ==
    IF result.ok THEN count_hits(H, result.rows, q_fp) ELSE H

(* Lines 181-217: the loop over the query fingerprints lo..hi, in order,   *)
(* starting from the histograms H; failed holds the positions of the       *)
(* fingerprints whose query_map returns Err.  The range is walked first    *)
(* half, then second half, which visits the fingerprints in the order of   *)
(* the loop; the test of first_half has TLC finish the first half before   *)
(* the second.                                                             *)
RECURSIVE histograms_over(_, _, _, _, _, _)
histograms_over(table, query_fingerprints, lo, hi, H, failed) ==
    IF lo > hi THEN H
    ELSE IF lo = hi
         THEN lookup_step(H, query_map(table, query_fingerprints[lo].hash, lo \in failed),
                          query_fingerprints[lo])
         ELSE LET mid == (lo + hi) \div 2
                  first_half == histograms_over(table, query_fingerprints, lo, mid, H, failed)
              IN  IF first_half = EmptyBag
                  THEN histograms_over(table, query_fingerprints, mid + 1, hi, EmptyBag, failed)
                  ELSE histograms_over(table, query_fingerprints, mid + 1, hi, first_half, failed)

(* The loop when some lookups fail, and when none does. *)
offset_histograms_failing(table, query_fingerprints, failed) ==
    histograms_over(table, query_fingerprints, 1, Len(query_fingerprints), EmptyBag, failed)

offset_histograms(table, query_fingerprints) ==
    offset_histograms_failing(table, query_fingerprints, {})

HitSongs(H) == {e[1] : e \in DOMAIN H}
Deltas(H, song_id) == {e[2] : e \in {x \in DOMAIN H : x[1] = song_id}}

(* Iterator::min_by_key in the place of max_by_key: the first minimal entry. *)
RECURSIVE min_by_key(_, _, _, _, _)
min_by_key(H, song_id, order, k, best) ==
    IF k > Len(order) THEN best
    ELSE min_by_key(H, song_id, order, k + 1,
             IF best = None \/ H[<<song_id, order[k]>>] < H[<<song_id, best[1]>>]
             THEN Some(order[k]) ELSE best)

(* Line 241: histogram.iter().max_by_key(|entry| entry.1) for the histogram *)
(* of song_id.  order is the order in which the HashMap yields its keys; of *)
(* several equally maximal entries Iterator::max_by_key returns the last.   *)
RECURSIVE max_by_key(_, _, _, _, _)
max_by_key(H, song_id, order, k, best) ==
    IF k > Len(order) THEN best
    ELSE max_by_key(H, song_id, order, k + 1,
             IF best = None \/ H[<<song_id, order[k]>>] >= H[<<song_id, best[1]>>]
             THEN Some(order[k]) ELSE best)

(* Lines 239-251: the loop over the songs of offset_histograms, in the     *)
(* order song_order in which the HashMap yields them.                      *)
RECURSIVE best_match_overall(_, _, _, _, _)
best_match_overall(H, song_order, delta_order, k, best) ==
    IF k > Len(song_order) THEN best
    ELSE LET song_id == song_order[k]
             best_delta_for_song == max_by_key(H, song_id, delta_order[song_id], 1, None)
         IN  IF best_delta_for_song = None
             THEN best_match_overall(H, song_order, delta_order, k + 1, best)
             ELSE LET score_for_song == H[<<song_id, best_delta_for_song[1]>>]
                  IN  best_match_overall(H, song_order, delta_order, k + 1,
                          IF best = None \/ score_for_song > best[1].score
                          THEN Some([song_id |-> song_id,
                                     score |-> score_for_song,
                                     time_offset_in_song_frames |-> best_delta_for_song[1]])
                          ELSE best)

(* The threshold with <= for <. *)
threshold_inclusive(best) ==
    IF best # None /\ best[1].score <= MIN_MATCH_SCORE THEN None ELSE best

(* Lines 253-259: the confidence threshold. *)
threshold(best) ==
    IF best # None /\ best[1].score < MIN_MATCH_SCORE THEN None ELSE best

(* query_db_and_match.  H is offset_histograms as lines 181-217 leave it   *)
(* (empty when the statement of line 184 does not prepare).                *)
query_db_and_match(query_fingerprints, H, song_order, delta_order) ==
    IF query_fingerprints = <<>> THEN None
    ELSE IF H = EmptyBag THEN None
    ELSE threshold(best_match_overall(H, song_order, delta_order, 1, None))

(* The orders in which a HashMap may yield the keys S. *)
Orders(S) ==
    {p \in [1..Cardinality(S) -> S] : \A i, j \in 1..Cardinality(S) : p[i] = p[j] => i = j}

DeltaOrders(H) ==
    {f \in [HitSongs(H) -> UNION {Orders(Deltas(H, s)) : s \in HitSongs(H)}] :
        \A s \in HitSongs(H) : f[s] \in Orders(Deltas(H, s))}

(* Query slices: the fingerprints of the snippet of a recording that starts *)
(* at frame start, once or repeated (the slice may hold any fingerprints,   *)
(* equal ones included).                                                    *)
Repeat(seq, m) == [i \in 1..(m * Len(seq)) |-> seq[((i - 1) % Len(seq)) + 1]]

Repeats == {1, MIN_MATCH_SCORE - 1, MIN_MATCH_SCORE}

QuerySlice(clip, start, repeats) ==
    Repeat(SnippetStages[clip][start].fingerprints, repeats)

QueryStep(clip, start, repeats) ==
    LET query_fingerprints == QuerySlice(clip, start, repeats)
    IN  \E H \in {IF schema /\ query_fingerprints # <<>>
                  THEN offset_histograms(fingerprints, query_fingerprints)
                  ELSE EmptyBag} :
            \E song_order \in Orders(HitSongs(H)), delta_order \in DeltaOrders(H) :
                /\ call' = [op |-> "query", clip |-> clip, start |-> start,
                            repeats |-> repeats, histograms |-> H,
                            ret |-> query_db_and_match(query_fingerprints, H,
                                                       song_order, delta_order)]
                /\ UNCHANGED <<schema, songs, fingerprints, last_insert_rowid, inflight>>

Query ==
    \E clip \in ClipNames, start \in 0..MaxStart, repeats \in Repeats :
        QueryStep(clip, start, repeats)

(* Enrollments of the recordings that have fingerprints, without store faults. *)
EnrollRecording ==
    \E song_file_path \in Paths, clip \in {c \in ClipNames : ClipStages[c].fingerprints # <<>>} :
        EnrollStep("x", song_file_path, clip, "none")

NextQuery == InitDb \/ EnrollRecording \/ Query

SpecQuery == Init /\ [][NextQuery]_vars

----------------------------------------------------------------------------
(* Properties of enroll_song, checked under Spec.                          *)

(* What the step that led to the primed state was. *)
EnrollCall(c) == c.op = "enroll"
StoreFault(ret) ==
    ~ret.ok /\ ret.err \in {"Failed to insert fingerprint", "Failed to commit transaction"}

(* The rows of table t2 that table t1 does not hold. *)
Added(t1, t2) == t2 (-) t1

(* The rows that hold the fingerprints fps under song id. *)
RowsOf(fps, id) ==
    [row \in {Row(fps[k], id) : k \in 1..Len(fps)} |->
        Cardinality({k \in 1..Len(fps) : Row(fps[k], id) = row})]

(* C1: enrolling the same name, path and samples twice in a row leaves the  *)
(* store as the first call left it: the rows of that recording, the total   *)
(* row count and the rows of every other recording are the same.            *)
C1_EnrollIdempotent ==
    [][(EnrollCall(call') /\ call'.repeat /\ call'.ret.ok /\ call'.path # NULL)
        => (songs' = songs /\ fingerprints' = fingerprints)]_vars

(* C2: enroll_song with a path that is already in songs adds no row, sets   *)
(* the name of the row with that path, and uses and returns the song_id of  *)
(* that row; with a new path it returns the id of the row it inserted.      *)
C2_UpsertByPath ==
    [][(EnrollCall(call') /\ call'.path # NULL)
        => LET p == call'.path
               added == Added(fingerprints, fingerprints')
           IN  IF \E r \in songs : r.file_path = p
               THEN LET old == CHOOSE r \in songs : r.file_path = p
                    IN  /\ songs' = (songs \ {old}) \cup {[old EXCEPT !.name = call'.name]}
                        /\ call'.ret.ok => call'.ret.id = old.song_id
                        /\ \A row \in DOMAIN added : row.song_id = old.song_id
               ELSE call'.ret.ok
                    => \E new \in songs' :
                          /\ new \notin songs
                          /\ songs' = songs \cup {new}
                          /\ new.file_path = p
                          /\ new.song_id \notin SongIds(songs)
                          /\ call'.ret.id = new.song_id
                          /\ \A row \in DOMAIN added : row.song_id = new.song_id]_vars

(* A call with a path that was in songs returned the id of that path's row  *)
(* while the connection's last insert was the row of another recording.     *)
C2_Witness ==
    /\ call.op = "enroll"
    /\ call.existed
    /\ call.ret.ok
    /\ last_insert_rowid \notin {0, call.ret.id}
    /\ \E r \in songs : r.file_path = call.path /\ r.song_id = call.ret.id /\ r.name = call.name
    /\ \E row \in DOMAIN fingerprints : row.song_id = call.ret.id

(* C3: enroll_song without a path, on samples that have fingerprints,       *)
(* inserts exactly one songs row, succeeds (unless the store fails an       *)
(* insert or the commit) and returns the id of that row, which no recording *)
(* in the store had.                                                        *)
C3_AbsentPathInserts ==
    [][(/\ EnrollCall(call')
        /\ call'.path = NULL
        /\ schema
        /\ ClipStages[call'.clip].fingerprints # <<>>)
        => /\ call'.ret.ok \/ StoreFault(call'.ret)
           /\ \E new \in songs' :
                 /\ new \notin songs
                 /\ songs' = songs \cup {new}
                 /\ new.song_id \notin SongIds(songs)
                 /\ call'.ret.ok => call'.ret.id = new.song_id]_vars

(* C4: when enroll_song returns an error the store is as it was before the  *)
(* call: no songs row added or renamed, no fingerprints row added or        *)
(* removed.  Stated for the calls that name a path (C3 is about the others). *)
C4_ErrorLeavesStore ==
    [][(EnrollCall(call') /\ call'.path # NULL /\ ~call'.ret.ok)
        => (songs' = songs /\ fingerprints' = fingerprints)]_vars

(* C5: after an enroll_song call has ended, the fingerprint rows it added   *)
(* are all of the fingerprints generated for the call, under its recording  *)
(* id, or none of them; no row of the table is lost.                        *)
C5_AllOrNothing ==
    [][EnrollCall(call')
        => LET added == Added(fingerprints, fingerprints')
               fps == ClipStages[call'.clip].fingerprints
           IN  /\ fingerprints' = fingerprints (+) added
               /\ IF call'.ret.ok
                  THEN added = RowsOf(fps, call'.ret.id)
                  ELSE added = EmptyBag]_vars

(* The store failed the last of the three inserts of recording B, after two *)
(* inserts had passed, and the table holds rows of an earlier enrollment.   *)
C5_Witness ==
    /\ call.op = "enroll"
    /\ call.clip = "B"
    /\ ~call.ret.ok
    /\ call.ret.err = "Failed to insert fingerprint"
    /\ fingerprints # EmptyBag

(* C6: every fingerprints row has the song_id of a songs row, in every      *)
(* state reached by init_db, enroll_song (successful or failing) and the    *)
(* removal of songs rows.                                                   *)
C6_ReferentialIntegrity ==
    \A row \in DOMAIN fingerprints : row.song_id \in SongIds(songs)

(* A songs row that had fingerprints rows was removed, and rows of another  *)
(* recording are still in the table.                                        *)
C6_Witness ==
    /\ call.op = "delete"
    /\ call.rows > 0
    /\ fingerprints # EmptyBag

----------------------------------------------------------------------------
(* Properties of query_db_and_match, checked under SpecQuery.              *)

(* The number of pairs (k, row): query fingerprint k and a stored row of    *)
(* song s with the same hash, with row.anchor_time_idx minus the query's    *)
(* anchor_time_idx equal to d.  A row stored n times counts n times.        *)
PairCount(table, Q, s, d) ==
    Cardinality(UNION {
        {<<k, row, copy>> :
            k \in {i \in 1..Len(Q) : /\ Q[i].hash = row.hash
                                     /\ row.anchor_time_idx - Q[i].anchor_time_idx = d},
            copy \in 1..table[row]} :
        row \in {r \in DOMAIN table : r.song_id = s}})

(* The slice the last query was called with. *)
QueryOf(c) == QuerySlice(c.clip, c.start, c.repeats)

CountOf(H, s, d) == IF <<s, d>> \in DOMAIN H THEN H[<<s, d>>] ELSE 0

(* The score of song s: the height of the peak of its histogram. *)
Score(H, s) == Max({H[e] : e \in {x \in DOMAIN H : x[1] = s}})
BestScore(H) == IF H = EmptyBag THEN 0 ELSE Max({H[e] : e \in DOMAIN H})

(* C7: the match returned is the recording of maximal score, and of several *)
(* recordings of maximal score the one with the lowest id.                  *)
C7_LowestIdOnTie ==
    (call.op = "query" /\ call.ret # None)
        => LET H == call.histograms
               best == {s \in HitSongs(H) : Score(H, s) = BestScore(H)}
           IN  call.ret[1].song_id = CHOOSE s \in best : \A t \in best : s <= t

(* C8: no match is returned exactly when the best score is below            *)
(* MIN_MATCH_SCORE (or nothing was hit); otherwise the match carries a      *)
(* recording of the best score, that score, and an offset at which that     *)
(* recording's histogram peaks.                                             *)
C8_Threshold ==
    call.op = "query"
        => LET H == call.histograms
           IN  /\ call.ret = None <=> BestScore(H) < MIN_MATCH_SCORE
               /\ call.ret # None
                    => /\ call.ret[1].score = BestScore(H)
                       /\ call.ret[1].song_id \in HitSongs(H)
                       /\ Score(H, call.ret[1].song_id) = BestScore(H)
                       /\ CountOf(H, call.ret[1].song_id,
                                  call.ret[1].time_offset_in_song_frames) = BestScore(H)

(* A query whose best score is exactly MIN_MATCH_SCORE returned a match. *)
C8_Witness ==
    /\ call.op = "query"
    /\ call.ret # None
    /\ call.ret[1].score = MIN_MATCH_SCORE
    /\ BestScore(call.histograms) = MIN_MATCH_SCORE

(* C9: the histogram of a query counts, for every recording s and signed    *)
(* offset d, the pairs of a query fingerprint and a stored row of s with    *)
(* equal hash whose anchor times differ by d; the score of a match is the   *)
(* maximum of its recording's histogram and its offset is attained there.   *)
C9_OffsetHistogram ==
    call.op = "query"
        => LET H == call.histograms
               Q == QueryOf(call)
               ids == SongIds(songs) \cup HitSongs(call.histograms)
               ds == {e[2] : e \in DOMAIN call.histograms}
                     \cup {row.anchor_time_idx - Q[k].anchor_time_idx :
                             row \in DOMAIN fingerprints, k \in 1..Len(Q)}
           IN  /\ \A s \in ids : \A d \in ds :
                     CountOf(call.histograms, s, d) = PairCount(fingerprints, Q, s, d)
               /\ call.ret # None
                    => /\ call.ret[1].score = Score(H, call.ret[1].song_id)
                       /\ call.ret[1].score
                            = CountOf(H, call.ret[1].song_id,
                                      call.ret[1].time_offset_in_song_frames)

(* A match was returned for a recording whose histogram has a negative      *)
(* offset and a higher peak at another offset.                              *)
C9_Witness ==
    /\ call.op = "query"
    /\ call.ret # None
    /\ \E e1, e2 \in DOMAIN call.histograms :
          /\ e1[1] = call.ret[1].song_id
          /\ e2[1] = call.ret[1].song_id
          /\ e1[2] < 0
          /\ call.histograms[e2] > call.histograms[e1]

(* A query that is empty, or none of whose hashes is in the index. *)
Degenerate(Q, table) ==
    \/ Q = <<>>
    \/ \A k \in 1..Len(Q) : \A row \in DOMAIN table : row.hash # Q[k].hash

(* C10: a query that is empty, or none of whose hashes is in the index,     *)
(* returns no match (None, the only value the function has for a failure    *)
(* as well) and leaves songs and fingerprints as they were.                 *)
C10_DegenerateQuery ==
    [][(call'.op = "query" /\ Degenerate(QueryOf(call'), fingerprints))
        => (call'.ret = None /\ songs' = songs /\ fingerprints' = fingerprints)]_vars

(* A query of MIN_MATCH_SCORE or more fingerprints, none of them in the     *)
(* index, against an index that holds rows, returned no match; so did an    *)
(* empty query.                                                             *)
C10_Witness ==
    /\ call.op = "query"
    /\ call.ret = None
    /\ fingerprints # EmptyBag
    /\ Len(QueryOf(call)) >= MIN_MATCH_SCORE
    /\ Degenerate(QueryOf(call), fingerprints)

----------------------------------------------------------------------------
(* Self-match: recordings long enough for a snippet to yield MIN_MATCH_SCORE *)
(* fingerprints, enrolled and queried as main.rs does (90-97, 166-195).      *)

MaxEnrollments == 2 \* successful enroll_song calls on one store

RecordingNames == {"P", "L"}

(* The bin of the n-th tone (n from 0).  P repeats one tone; L alternates   *)
(* the two tones in runs of growing length: 1 2 2 1 1 1 2 2 2 2 ...         *)
RECURSIVE run_of(_, _)
run_of(n, run) == IF n < run THEN run ELSE run_of(n - run, run + 1)

ToneAt(name, n) ==
    IF name = "P" THEN Tone
    ELSE IF run_of(n, 1) % 2 = 1 THEN Tone ELSE HighTone

(* The samples of a recording: 24 tones, one at every third frame, which   *)
(* is the closest that peaks of equal magnitude can be for the time radius  *)
(* 2 of spec_peak_params; with MAX_PAIRS_PER_ANCHOR = 5 the 23 peaks of a   *)
(* snippet that misses the first tone yield MIN_MATCH_SCORE fingerprints.   *)
Recording(name) ==
    LET frames == (23 * 3) + 1
    IN  [len |-> stft_params.window_size + ((frames - 1) * stft_params.hop_size),
         fft |-> [i \in 1..frames |->
                    IF (i - 1) % 3 = 0 THEN ToneAt(name, (i - 1) \div 3)
                    ELSE Silence]]

(* The frame of a recording at which a query snippet starts. *)
SnippetStarts == {0, 1}

RecordingStages == [name \in RecordingNames |-> Stages(Recording(name))]
RecordingSnippetStages ==
    [name \in RecordingNames |->
        [k \in SnippetStarts |-> Stages(Snippet(Recording(name), k))]]

(* The rows that hold the fingerprints of a recording under song id. *)
RecordingRows ==
    [name \in RecordingNames |->
        [id \in 1..(MaxId + 1) |-> RowsOf(RecordingStages[name].fingerprints, id)]]

(* enroll_song as main.rs calls it (90-97): with a path, and here without a *)
(* store fault.  The call record keeps the value returned only.             *)
EnrollLong(song_file_path, name) ==
    \E r \in {enroll_song(schema, songs, fingerprints, last_insert_rowid,
                           name, song_file_path, RecordingStages[name], "none")} :
        /\ \A id \in SongIds(r.songs) : id <= MaxId
        /\ BagCardinality(r.fingerprints)
              <= MaxEnrollments * Len(RecordingStages[name].fingerprints)
        /\ songs' = r.songs
        /\ fingerprints' = r.fingerprints
        /\ last_insert_rowid' = r.rowid
        /\ call' = [op |-> "enroll", ret |-> r.ret]
        /\ UNCHANGED <<schema, inflight>>

EnrollRecordingLong ==
    \E song_file_path \in Paths, name \in RecordingNames :
        EnrollLong(song_file_path, name)

(* The keys S in ascending order, and that order started after its i-th key. *)
Ascending(S) ==
    [i \in 1..Cardinality(S) |-> CHOOSE x \in S : Cardinality({y \in S : y < x}) = i - 1]

Rotation(seq, i) == [j \in 1..Len(seq) |-> seq[((i + j - 1) % Len(seq)) + 1]]

(* Orders in which the HashMap of song s may yield its offsets: one order   *)
(* for every entry of maximal count, in which that entry comes last.  What  *)
(* max_by_key returns depends on the order only through the maximal entry   *)
(* that comes last, so these orders give every result the call can have.    *)
PeakLastOrders(H, s) ==
    LET asc == Ascending(Deltas(H, s))
        top == Max({H[<<s, d>>] : d \in Deltas(H, s)})
    IN  {Rotation(asc, i) : i \in {j \in 1..Len(asc) : H[<<s, asc[j]>>] = top}}

PeakLastDeltaOrders(H) ==
    {f \in [HitSongs(H) -> UNION {PeakLastOrders(H, s) : s \in HitSongs(H)}] :
        \A s \in HitSongs(H) : f[s] \in PeakLastOrders(H, s)}

(* main.rs 166-195: the query with the fingerprints of the snippet of a     *)
(* recording that starts start frames into it.  A query leaves the store as *)
(* it is, so a query that follows a query finds what a first query can      *)
(* find: the queries here follow a call that is not a query.                *)
SnippetQuery(name, start) == RecordingSnippetStages[name][start].fingerprints

QuerySnippetStep(name, start) ==
    LET query_fingerprints == SnippetQuery(name, start)
    IN  /\ call.op # "query_snippet"
        /\ \E H \in {IF schema /\ query_fingerprints # <<>>
                     THEN offset_histograms(fingerprints, query_fingerprints)
                     ELSE EmptyBag} :
            \E song_order \in Orders(HitSongs(H)), delta_order \in PeakLastDeltaOrders(H) :
                /\ call' = [op |-> "query_snippet", recording |-> name, start |-> start,
                            histograms |-> H,
                            ret |-> query_db_and_match(query_fingerprints, H,
                                                       song_order, delta_order)]
                /\ UNCHANGED <<schema, songs, fingerprints, last_insert_rowid, inflight>>

QuerySnippet ==
    \E name \in RecordingNames, start \in SnippetStarts : QuerySnippetStep(name, start)

NextSelf == InitDb \/ EnrollRecordingLong \/ QuerySnippet

SpecSelf == Init /\ [][NextSelf]_vars

----------------------------------------------------------------------------
(* Self-match, checked under SpecSelf.                                     *)

(* Song X holds the rows of an enrollment of the recording. *)
Enrolled(table, name, X) == RecordingRows[name][X] \sqsubseteq table

(* Every fingerprint of Q is a fingerprint of fps with its anchor time      *)
(* shifted by k.                                                            *)
ShiftedFrom(Q, fps, k) ==
    \A i \in 1..Len(Q) : \E j \in 1..Len(fps) :
        /\ fps[j].hash = Q[i].hash
        /\ fps[j].anchor_time_idx = Q[i].anchor_time_idx + k

(* The last call queried a snippet of MIN_MATCH_SCORE or more fingerprints  *)
(* of a recording that song X holds.                                        *)
SelfQuery(X) ==
    /\ call.op = "query_snippet"
    /\ Len(SnippetQuery(call.recording, call.start)) >= MIN_MATCH_SCORE
    /\ Enrolled(fingerprints, call.recording, X)
    /\ ShiftedFrom(SnippetQuery(call.recording, call.start),
                   RecordingStages[call.recording].fingerprints, call.start)

(* C11 as the specification states it: the query of a snippet of enrolled   *)
(* recording X that starts k frames into X returns X with a score of        *)
(* MIN_MATCH_SCORE or more and an offset within one frame of k.             *)
C11_SelfMatch ==
    \A X \in SongIds(songs) :
        SelfQuery(X)
            => /\ call.ret # None
               /\ call.ret[1].song_id = X
               /\ call.ret[1].score >= MIN_MATCH_SCORE
               /\ Abs(call.ret[1].time_offset_in_song_frames - call.start) <= 1

(* C11, amended: the query of such a snippet returns a match whose score is *)
(* at least the number of query fingerprints and at least the count of X at *)
(* offset k; it returns X at offset k when that count is greater than every *)
(* other count of the histograms (no other recording and no other offset    *)
(* of X reaches it).                                                        *)
C11_SelfMatchUniquePeak ==
    \A X \in SongIds(songs) :
        SelfQuery(X)
            => LET H == call.histograms
                   k == call.start
                   n == Len(SnippetQuery(call.recording, call.start))
               IN  /\ CountOf(H, X, k) >= n
                   /\ call.ret # None
                   /\ call.ret[1].score >= CountOf(H, X, k)
                   /\ (\A e \in DOMAIN H : e # <<X, k>> => H[e] < CountOf(H, X, k))
                        => /\ call.ret[1].song_id = X
                           /\ call.ret[1].time_offset_in_song_frames = k

(* A snippet that starts one frame into recording L matched the song that   *)
(* holds L, at offset 1, while another song was hit as well.                *)
C11_Witness ==
    /\ call.op = "query_snippet"
    /\ call.recording = "L"
    /\ call.start = 1
    /\ call.ret # None
    /\ SelfQuery(call.ret[1].song_id)
    /\ call.ret[1].time_offset_in_song_frames = 1
    /\ Cardinality(HitSongs(call.histograms)) = 2
    /\ \A e \in DOMAIN call.histograms :
          e # <<call.ret[1].song_id, 1>> => call.histograms[e] < call.ret[1].score

----------------------------------------------------------------------------
(* Calls on several connections to one database file.  Every connection is *)
(* opened by open_db_connection (34-43): journal_mode = WAL, so a reader    *)
(* is never blocked and reads the last committed state, and one connection  *)
(* at a time holds the write lock.  A call is a sequence of statements;     *)
(* between two statements of one connection another connection may run.     *)

Call(c) == inflight.calls[c]
InFlight(c) == Call(c).pc \notin {"idle", "done"}

(* The connection inside a write transaction: it holds the write lock. *)
Writer == {c \in Conns : Call(c).pc = "commit"}

SetCall(c, rec) == [inflight EXCEPT !.calls[c] = rec]

(* A call begins on connection c.  When no other call is in progress the    *)
(* store is noted as the state before the calls and the values returned by  *)
(* earlier calls are forgotten; a connection begins one call while another  *)
(* connection is in a call.                                                 *)
Begin(c, rec) ==
    LET alone == \A d \in Conns \ {c} : ~InFlight(d)
    IN  /\ ~InFlight(c)
        /\ alone \/ Call(c).pc = "idle"
        /\ inflight' =
              [base |-> IF alone THEN [songs |-> songs, fingerprints |-> fingerprints]
                        ELSE inflight.base,
               calls |-> [d \in Conns |-> IF d = c THEN rec
                                          ELSE IF alone THEN Idle ELSE Call(d)]]

(* enroll_song, statement by statement. *)

BeginEnroll(c, song_name, song_file_path, clip) ==
    /\ schema
    /\ Begin(c, [op |-> "enroll", pc |-> "upsert", name |-> song_name,
                 path |-> song_file_path, clip |-> clip, result |-> "",
                 rowid |-> 0, id |-> 0, staged |-> EmptyBag, ret |-> <<>>])
    /\ UNCHANGED <<schema, songs, fingerprints, last_insert_rowid, call>>

(* The upsert computed from the songs table as it was before the calls. *)
execute_on_snapshot(db_schema, S, snapshot, rowid, song_name, song_file_path) ==
    LET exec == execute(db_schema, snapshot, rowid, song_name, song_file_path)
    IN  [exec EXCEPT !.songs = S \cup exec.songs]

(* Lines 90-94 on a connection: one statement in autocommit mode, which     *)
(* reads and writes the committed songs table S under the write lock.       *)
execute_on(db_schema, S, snapshot, rowid, song_name, song_file_path) ==
    execute(db_schema, S, rowid, song_name, song_file_path)

ConnUpsert(c) ==
    /\ Call(c).pc = "upsert"
    /\ Writer = {}
    /\ \E exec \in {execute_on(schema, songs, inflight.base.songs, Call(c).rowid,
                               Call(c).name, Call(c).path)} :
          /\ \A id \in SongIds(exec.songs) : id <= MaxId
          /\ songs' = exec.songs
          /\ inflight' = SetCall(c, [Call(c) EXCEPT !.pc = "select",
                                                    !.result = exec.result,
                                                    !.rowid = exec.rowid])
    /\ UNCHANGED <<schema, fingerprints, last_insert_rowid, call>>

(* Lines 95-147: the id (the SELECT of the Err arm reads the committed      *)
(* songs table) and the checks of the pipeline stages.                      *)
ConnSelect(c) ==
    /\ Call(c).pc = "select"
    /\ LET first == db_song_id([result |-> Call(c).result, rowid |-> Call(c).rowid,
                                songs |-> songs], schema, Call(c).path)
           final == IF first.ok
                    THEN final_song_id_db(first.id, schema, songs, Call(c).path)
                    ELSE first
           stages == ClipStages[Call(c).clip]
           Err(msg) == [ok |-> FALSE, err |-> msg]
           failed(ret) == SetCall(c, [Call(c) EXCEPT !.pc = "done", !.ret = ret])
       IN  inflight' =
              IF ~final.ok THEN failed(final)
              ELSE IF stages.spectrogram = <<>>
                   THEN failed(Err("Failed to generate spectrogram"))
              ELSE IF stages.peaks = <<>> THEN failed(Err("No peaks found"))
              ELSE IF stages.fingerprints = <<>>
                   THEN failed(Err("No fingerprints generated"))
              ELSE SetCall(c, [Call(c) EXCEPT !.pc = "insert", !.id = final.id])
    /\ UNCHANGED <<schema, songs, fingerprints, last_insert_rowid, call>>

(* Lines 151-159: conn.transaction() and the insert loop.  The first insert *)
(* takes the write lock (the connection waits while another holds it); the  *)
(* rows are staged and no other connection sees them before the commit.     *)
ConnInsert(c) ==
    /\ Call(c).pc = "insert"
    /\ Writer = {}
    /\ LET ins == insert_fingerprints(fingerprints, songs,
                                      ClipStages[Call(c).clip].fingerprints,
                                      1, Call(c).id, 0)
       IN  inflight' =
              IF ins.ok
              THEN SetCall(c, [Call(c) EXCEPT !.pc = "commit", !.staged = ins.table])
              ELSE SetCall(c, [Call(c) EXCEPT
                                  !.pc = "done",
                                  !.ret = [ok |-> FALSE,
                                           err |-> "Failed to insert fingerprint"]])
    /\ UNCHANGED <<schema, songs, fingerprints, last_insert_rowid, call>>

(* Line 160: tx.commit(), and the return of line 163. *)
ConnCommit(c) ==
    /\ Call(c).pc = "commit"
    /\ BagCardinality(Call(c).staged) <= MaxRows
    /\ fingerprints' = transaction(fingerprints, Call(c).staged, TRUE)
    /\ inflight' = SetCall(c, [Call(c) EXCEPT
                                  !.pc = "done", !.staged = EmptyBag,
                                  !.ret = [ok |-> TRUE, id |-> song_id_u32(Call(c).id)]])
    /\ UNCHANGED <<schema, songs, last_insert_rowid, call>>

ConnEnrollStep(c) == ConnUpsert(c) \/ ConnSelect(c) \/ ConnInsert(c) \/ ConnCommit(c)

(* Recordings that have fingerprints. *)
Recordings == {c \in ClipNames : ClipStages[c].fingerprints # <<>>}

(* query_db_and_match, statement by statement: the statement of line 184 is *)
(* run once for every query fingerprint (192-194), each run a read of its   *)
(* own, outside any transaction, of the state committed at that moment.     *)
(* tables notes the committed fingerprints tables the lookups have read.    *)

BeginQuery(c, clip) ==
    /\ schema
    /\ ClipStages[clip].fingerprints # <<>>
    /\ Begin(c, [op |-> "query", pc |-> "lookup", clip |-> clip, next |-> 1,
                 histograms |-> EmptyBag, tables |-> {}, ret |-> <<>>])
    /\ UNCHANGED <<schema, songs, fingerprints, last_insert_rowid, call>>

ConnLookup(c) ==
    /\ Call(c).pc = "lookup"
    /\ Call(c).next <= Len(ClipStages[Call(c).clip].fingerprints)
    /\ LET q_fp == ClipStages[Call(c).clip].fingerprints[Call(c).next]
       IN  inflight' = SetCall(c, [Call(c) EXCEPT
                !.next = @ + 1,
                !.histograms = count_hits(@, lookup(fingerprints, q_fp.hash), q_fp),
                !.tables = @ \cup {fingerprints}])
    /\ UNCHANGED <<schema, songs, fingerprints, last_insert_rowid, call>>

(* Lines 219-266, after the last lookup. *)
ConnMatch(c) ==
    /\ Call(c).pc = "lookup"
    /\ Call(c).next > Len(ClipStages[Call(c).clip].fingerprints)
    /\ \E song_order \in Orders(HitSongs(Call(c).histograms)),
          delta_order \in DeltaOrders(Call(c).histograms) :
          inflight' = SetCall(c, [Call(c) EXCEPT
                !.pc = "done",
                !.ret = <<query_db_and_match(ClipStages[Call(c).clip].fingerprints,
                                             Call(c).histograms, song_order, delta_order)>>])
    /\ UNCHANGED <<schema, songs, fingerprints, last_insert_rowid, call>>

(* One connection enrolls recordings while the other queries. *)
EnrollOnC1 ==
    \/ \E song_file_path \in Paths, clip \in Recordings :
            BeginEnroll("c1", "x", song_file_path, clip)
    \/ ConnEnrollStep("c1")

QueryOnC2 ==
    \/ \E clip \in Recordings : BeginQuery("c2", clip)
    \/ ConnLookup("c2")
    \/ ConnMatch("c2")

NextSnapshot == InitDb \/ EnrollOnC1 \/ QueryOnC2

SpecSnapshot == Init /\ [][NextSnapshot]_vars

(* C12: the histograms a query has built when its last lookup is done are   *)
(* those of the whole query against one committed state of the fingerprints *)
(* table, one of the states its lookups have read (the state before or the  *)
(* state after a commit made meanwhile).                                    *)
C12_SnapshotConsistency ==
    \A c \in Conns :
        (Call(c).pc = "done" /\ Call(c).op = "query")
            => \E table \in Call(c).tables :
                  Call(c).histograms
                      = offset_histograms(table, ClipStages[Call(c).clip].fingerprints)

----------------------------------------------------------------------------
(* Two connections enroll recordings, each under a path of its own.        *)

PathOf(c) == IF c = "c1" THEN "a.mp3" ELSE "b.mp3"

EnrollOn(c) ==
    \/ \E song_name \in Names, clip \in Recordings :
            BeginEnroll(c, song_name, PathOf(c), clip)
    \/ ConnEnrollStep(c)

NextSerial == InitDb \/ EnrollOn("c1") \/ EnrollOn("c2")

SpecSerial == Init /\ [][NextSerial]_vars

(* enroll_song for call r1 and then for call r2, one after the other, from  *)
(* the store base.                                                          *)
OneAfterTheOther(base, r1, r2) ==
    LET e1 == enroll_song(schema, base.songs, base.fingerprints, 0,
                          r1.name, r1.path, ClipStages[r1.clip], "none")
        e2 == enroll_song(schema, e1.songs, e1.fingerprints, 0,
                          r2.name, r2.path, ClipStages[r2.clip], "none")
    IN  [songs |-> e2.songs, fingerprints |-> e2.fingerprints,
         first |-> e1.ret, second |-> e2.ret]

(* Both connections have finished an enroll_song call, and the two calls    *)
(* overlapped or followed each other from the store inflight.base.          *)
BothEnrolled ==
    \A c \in Conns : Call(c).pc = "done" /\ Call(c).op = "enroll"

(* C13: when two enroll_song calls for different paths have run on two      *)
(* connections, their steps interleaved in any way, the store is the one    *)
(* that the two calls leave when run one after the other in one of the two  *)
(* orders, each call has returned what it returns in that order, and each   *)
(* has returned the id of the songs row of its path, under which the        *)
(* fingerprints of its recording are stored.  A writer that finds the       *)
(* write lock taken waits for it (the busy handler of the connection).      *)
C13_Serializable ==
    (BothEnrolled /\ Call("c1").path # Call("c2").path)
        => /\ \E order \in {<<"c1", "c2">>, <<"c2", "c1">>} :
                LET seq == OneAfterTheOther(inflight.base, Call(order[1]), Call(order[2]))
                IN  /\ songs = seq.songs
                    /\ fingerprints = seq.fingerprints
                    /\ Call(order[1]).ret = seq.first
                    /\ Call(order[2]).ret = seq.second
           /\ \A c \in Conns :
                /\ Call(c).ret.ok
                /\ \E row \in songs : /\ row.file_path = Call(c).path
                                      /\ row.song_id = Call(c).ret.id
                                      /\ row.name = Call(c).name
                /\ RowsOf(ClipStages[Call(c).clip].fingerprints, Call(c).ret.id)
                      \sqsubseteq fingerprints

(* Two enrollments of new paths have finished that overlapped (Begin        *)
(* forgets a finished call when the next one begins with no call in         *)
(* flight, so two finished calls were in flight together), and the store    *)
(* holds the songs row and fingerprints of both.                            *)
C13_Witness ==
    /\ BothEnrolled
    /\ Cardinality(SongIds(songs) \ SongIds(inflight.base.songs)) = 2
    /\ \A c \in Conns :
          /\ Call(c).ret.ok
          /\ \E row \in DOMAIN fingerprints : row.song_id = Call(c).ret.id

----------------------------------------------------------------------------
(* Queries some of whose lookups fail.                                      *)

MaxFailed == 2      \* lookups that fail in one query

QueryFailingStep(clip, start, repeats, first, count) ==
    LET query_fingerprints == QuerySlice(clip, start, repeats)
        failed == first..(first + count - 1)
    IN  /\ call.op # "query_failing"   \* a query leaves the store as it was
        /\ first + count - 1 <= Len(query_fingerprints)
        /\ \E H \in {IF schema
                     THEN offset_histograms_failing(fingerprints, query_fingerprints, failed)
                     ELSE EmptyBag} :
            \E song_order \in Orders(HitSongs(H)), delta_order \in DeltaOrders(H) :
                /\ call' = [op |-> "query_failing", clip |-> clip, start |-> start,
                            repeats |-> repeats, first |-> first, count |-> count,
                            histograms |-> H,
                            ret |-> query_db_and_match(query_fingerprints, H,
                                                       song_order, delta_order)]
                /\ UNCHANGED <<schema, songs, fingerprints, last_insert_rowid, inflight>>

QueryFailing ==
    \E clip \in ClipNames, start \in 0..MaxStart, repeats \in Repeats :
        \E count \in 1..MaxFailed :
            \E first \in (1..MaxFailed) \cup {Len(QuerySlice(clip, start, repeats)) - count + 1} :
                QueryFailingStep(clip, start, repeats, first, count)

NextLookup == InitDb \/ EnrollRecording \/ QueryFailing

SpecLookup == Init /\ [][NextLookup]_vars

(* The fingerprints of the query of call c whose lookup succeeded, in order. *)
Succeeded(c) ==
    LET Q == QueryOf(c)
    IN  SubSeq(Q, 1, c.first - 1) \o SubSeq(Q, c.first + c.count, Len(Q))

(* The matches query_db_and_match may return from the histograms H. *)
MatchesOf(Q, H) ==
    {query_db_and_match(Q, H, song_order, delta_order) :
        song_order \in Orders(HitSongs(H)), delta_order \in DeltaOrders(H)}

----------------------------------------------------------------------------
(* find_peaks on small spectrograms.  The magnitudes are finite and not     *)
(* negative, as the norms of create_spectrogram (64-66) are for finite      *)
(* samples, and every frame has the bins of the first.                      *)

MaxFrames == 3      \* frames of a spectrogram
MaxBins == 2        \* frequency bins of a frame
Magnitudes == 0..2
Radii == 0..1

Spectrograms ==
    UNION {[1..num_frames -> [1..num_freq_bins -> Magnitudes]] :
              num_frames \in 0..MaxFrames, num_freq_bins \in 0..MaxBins}

InitPeaks ==
    /\ schema = FALSE
    /\ songs = {}
    /\ fingerprints = EmptyBag
    /\ last_insert_rowid = 0
    /\ inflight = NoneInFlight
    /\ \E spectrogram \in Spectrograms, time_radius \in Radii, freq_radius \in Radii,
          min_magnitude_threshold \in Magnitudes :
            call = [op |-> "spectrogram", spectrogram |-> spectrogram,
                    time_radius |-> time_radius, freq_radius |-> freq_radius,
                    min_magnitude_threshold |-> min_magnitude_threshold]

FindPeaks ==
    /\ call.op = "spectrogram"
    /\ call' = [op |-> "find_peaks", spectrogram |-> call.spectrogram,
                time_radius |-> call.time_radius, freq_radius |-> call.freq_radius,
                min_magnitude_threshold |-> call.min_magnitude_threshold,
                peaks |-> find_peaks(call.spectrogram, call.time_radius,
                                     call.freq_radius, call.min_magnitude_threshold)]
    /\ UNCHANGED <<schema, songs, fingerprints, last_insert_rowid, inflight>>

NextPeaks == FindPeaks

SpecPeaks == InitPeaks /\ [][NextPeaks]_vars

(* The cells of spectrogram S, 0-based, and the neighbours of a cell: the   *)
(* other cells of S within the radii.                                       *)
Cells(S) ==
    IF S = <<>> THEN {} ELSE (0..(Len(S) - 1)) \X (0..(Len(S[1]) - 1))

Neighbours(S, cell, time_radius, freq_radius) ==
    {n \in Cells(S) : /\ n # cell
                      /\ Abs(n[1] - cell[1]) <= time_radius
                      /\ Abs(n[2] - cell[2]) <= freq_radius}

Mag(S, cell) == S[cell[1] + 1][cell[2] + 1]

(* Row-major order of cells. *)
Precedes(a, b) == a[1] < b[1] \/ (a[1] = b[1] /\ a[2] < b[2])

CellOf(peak) == <<peak.time_idx, peak.freq_bin_idx>>

(* C15: find_peaks returns exactly the cells whose magnitude is at least    *)
(* min_magnitude_threshold, that have no neighbour of strictly greater      *)
(* magnitude within the radii (clipped at the bounds of the spectrogram)    *)
(* and no neighbour of equal magnitude that precedes them in row-major      *)
(* order; each such cell once, with its magnitude, in ascending (time_idx,  *)
(* freq_bin_idx) order; and nothing for an empty spectrogram or an empty    *)
(* first frame.                                                             *)
C15_FindPeaksExact ==
    call.op = "find_peaks"
        => LET S == call.spectrogram
               peaks == call.peaks
               qualifies(cell) ==
                   /\ Mag(S, cell) >= call.min_magnitude_threshold
                   /\ \A n \in Neighbours(S, cell, call.time_radius, call.freq_radius) :
                         /\ ~(Mag(S, n) > Mag(S, cell))
                         /\ ~(Mag(S, n) = Mag(S, cell) /\ Precedes(n, cell))
           IN  /\ {CellOf(peaks[i]) : i \in 1..Len(peaks)}
                     = {cell \in Cells(S) : qualifies(cell)}
               /\ \A i, j \in 1..Len(peaks) :
                     i < j => Precedes(CellOf(peaks[i]), CellOf(peaks[j]))
               /\ \A i \in 1..Len(peaks) : peaks[i].magnitude = Mag(S, CellOf(peaks[i]))
               /\ (S = <<>> \/ S[1] = <<>>) => peaks = <<>>

(* find_peaks returned a cell on the last frame and a cell of a plateau of  *)
(* equal neighbours, left out the cell of the plateau that follows it, a    *)
(* cell below the threshold and a cell with a greater neighbour.            *)
C15_Witness ==
    /\ call.op = "find_peaks"
    /\ Len(call.peaks) >= 2
    /\ LET S == call.spectrogram
           returned == {CellOf(call.peaks[i]) : i \in 1..Len(call.peaks)}
           near(cell) == Neighbours(S, cell, call.time_radius, call.freq_radius)
       IN  /\ \E cell \in returned : cell[1] = Len(S) - 1
           /\ \E cell \in returned : \E n \in near(cell) \ returned :
                 Mag(S, n) = Mag(S, cell)
           /\ \E cell \in Cells(S) \ returned :
                 Mag(S, cell) < call.min_magnitude_threshold
           /\ \E cell \in Cells(S) \ returned : \E n \in near(cell) :
                 Mag(S, n) > Mag(S, cell) /\ Mag(S, cell) >= call.min_magnitude_threshold

(* C16 as stated: every peak find_peaks returns is strictly greater than    *)
(* every neighbour within the radii, whether the neighbour precedes or      *)
(* follows it in row-major order.                                           *)
C16_StrictLocalMax ==
    call.op = "find_peaks"
        => \A i \in 1..Len(call.peaks) :
              \A n \in Neighbours(call.spectrogram, CellOf(call.peaks[i]),
                                  call.time_radius, call.freq_radius) :
                  call.peaks[i].magnitude > Mag(call.spectrogram, n)

(* C16, amended: every peak find_peaks returns is at least as great as      *)
(* every neighbour within the radii and strictly greater than every         *)
(* neighbour that precedes it in row-major order; a neighbour that follows  *)
(* it may be equal.                                                         *)
C16_LocalMaxFirstOfPlateau ==
    call.op = "find_peaks"
        => \A i \in 1..Len(call.peaks) :
              \A n \in Neighbours(call.spectrogram, CellOf(call.peaks[i]),
                                  call.time_radius, call.freq_radius) :
                  /\ call.peaks[i].magnitude >= Mag(call.spectrogram, n)
                  /\ Precedes(n, CellOf(call.peaks[i]))
                        => call.peaks[i].magnitude > Mag(call.spectrogram, n)

(* find_peaks returned a peak that has a smaller neighbour before it and an *)
(* equal neighbour after it, in the next frame.                             *)
C16_Witness ==
    /\ call.op = "find_peaks"
    /\ \E i \in 1..Len(call.peaks) :
          LET cell == CellOf(call.peaks[i])
              near == Neighbours(call.spectrogram, cell, call.time_radius, call.freq_radius)
          IN  /\ \E n \in near : /\ Precedes(n, cell)
                                 /\ Mag(call.spectrogram, n) < call.peaks[i].magnitude
              /\ \E n \in near : /\ n[1] = cell[1] + 1
                                 /\ Mag(call.spectrogram, n) = call.peaks[i].magnitude

----------------------------------------------------------------------------
(* create_hashes on the peaks of small spectrograms: cells in ascending     *)
(* (time_idx, freq_bin_idx) order, each once, as find_peaks returns them.   *)
(* The bins are the first two and the last of the 1025 that main.rs keeps   *)
(* (FFT_WINDOW_SIZE / 2 + 1); the times include one more than 2^8 frames    *)
(* after the first.                                                         *)

MaxPeaks == 4       \* peaks passed to create_hashes
PeakTimes == {0, 1, (2 ^ HASH_DELTA_TIME_BITS) + 1}
PeakBins == {0, 1, 2 ^ HASH_FREQ_BITS}

(* The cells C as the peaks find_peaks returns for them. *)
PeaksOf(C) ==
    [i \in 1..Cardinality(C) |->
        LET cell == CHOOSE x \in C : Cardinality({y \in C : Precedes(y, x)}) = i - 1
        IN  [time_idx |-> cell[1], freq_bin_idx |-> cell[2], magnitude |-> 1]]

PeakLists ==
    {PeaksOf(C) : C \in {X \in SUBSET (PeakTimes \X PeakBins) : Cardinality(X) <= MaxPeaks}}

HashingParams ==
    {0, TARGET_ZONE_DT_MIN_FRAMES}
    \X {1, TARGET_ZONE_DT_MAX_FRAMES, (2 ^ HASH_DELTA_TIME_BITS) + 1}
    \X {0, TARGET_ZONE_DF_ABS_MAX_BINS, 2 ^ HASH_FREQ_BITS}
    \X {1, MAX_PAIRS_PER_ANCHOR}

InitHashes ==
    /\ schema = FALSE
    /\ songs = {}
    /\ fingerprints = EmptyBag
    /\ last_insert_rowid = 0
    /\ inflight = NoneInFlight
    /\ \E peaks \in PeakLists, params \in HashingParams :
            call = [op |-> "peaks", peaks |-> peaks, params |-> params]

CreateHashes ==
    /\ call.op = "peaks"
    /\ call' = [op |-> "create_hashes", peaks |-> call.peaks, params |-> call.params,
                fingerprints |-> create_hashes(call.peaks, call.params[1], call.params[2],
                                               call.params[3], call.params[4])]
    /\ UNCHANGED <<schema, songs, fingerprints, last_insert_rowid, inflight>>

NextHashes == CreateHashes

SpecHashes == InitHashes /\ [][NextHashes]_vars

(* The peaks after anchor i of call c that lie in its target zone. *)
InZone(c, i) ==
    {j \in (i + 1)..Len(c.peaks) :
        /\ c.params[1] <= c.peaks[j].time_idx - c.peaks[i].time_idx
        /\ c.peaks[j].time_idx - c.peaks[i].time_idx <= c.params[2]
        /\ Abs(c.peaks[j].freq_bin_idx - c.peaks[i].freq_bin_idx) <= c.params[3]}

(* The first min(P_max, q) of them, and the pairs of all anchors. *)
Targets(c, i) ==
    {j \in InZone(c, i) : Cardinality({k \in InZone(c, i) : k < j}) < c.params[4]}

AcceptedPairs(c) == {pair \in (1..Len(c.peaks)) \X (1..Len(c.peaks)) : pair[2] \in Targets(c, pair[1])}

(* The k-th pair in the order of the anchors and, for one anchor, of the    *)
(* targets.                                                                 *)
PairAt(c, k) ==
    CHOOSE pair \in AcceptedPairs(c) :
        Cardinality({q \in AcceptedPairs(c) : Precedes(q, pair)}) = k - 1

(* C17: create_hashes emits, anchor after anchor, one fingerprint for each  *)
(* of the first min(P_max, q) peaks after the anchor, in input order, that  *)
(* lie in its target zone (dt_min <= dt <= dt_max and |df| <= df_max), q    *)
(* being the number of those peaks; a peak outside the zone is skipped and  *)
(* the scan goes on; so at most P_max fingerprints come from one anchor.    *)
C17_PairSelection ==
    call.op = "create_hashes"
        => /\ Len(call.fingerprints) = Cardinality(AcceptedPairs(call))
           /\ \A k \in 1..Len(call.fingerprints) :
                 LET a == call.peaks[PairAt(call, k)[1]]
                     b == call.peaks[PairAt(call, k)[2]]
                 IN  call.fingerprints[k]
                       = [hash |-> robust_hash_val(a.freq_bin_idx, b.freq_bin_idx,
                                                   b.time_idx - a.time_idx),
                          anchor_time_idx |-> a.time_idx]
           /\ \A i \in 1..Len(call.peaks) :
                 Cardinality(Targets(call, i))
                    = Min2(call.params[4], Cardinality(InZone(call, i)))

(* An anchor had more peaks in its zone than P_max and the scan stopped at  *)
(* P_max; for an anchor, a peak outside the zone was skipped and a later    *)
(* peak was paired.                                                         *)
C17_Witness ==
    /\ call.op = "create_hashes"
    /\ call.fingerprints # <<>>
    /\ \E i \in 1..Len(call.peaks) : Cardinality(InZone(call, i)) > call.params[4]
    /\ \E i \in 1..Len(call.peaks) : \E j \in Targets(call, i) :
          \E k \in (i + 1)..(j - 1) : k \notin InZone(call, i)

(* C18: the fingerprint create_hashes emits for a pair (a, b) has           *)
(* anchor_time_idx = a.time_idx and hash = ((a.freq_bin_idx mod 2^10) *     *)
(* 2^18) + ((b.freq_bin_idx mod 2^10) * 2^8) + ((b.time_idx - a.time_idx)   *)
(* mod 2^8), which is less than 2^28.                                       *)
C18_HashLayout ==
    call.op = "create_hashes"
        => /\ Len(call.fingerprints) = Cardinality(AcceptedPairs(call))
           /\ \A k \in 1..Len(call.fingerprints) :
                 LET a == call.peaks[PairAt(call, k)[1]]
                     b == call.peaks[PairAt(call, k)[2]]
                 IN  /\ call.fingerprints[k].anchor_time_idx = a.time_idx
                     /\ call.fingerprints[k].hash
                          = ((a.freq_bin_idx % 1024) * 262144)
                            + ((b.freq_bin_idx % 1024) * 256)
                            + ((b.time_idx - a.time_idx) % 256)
                     /\ call.fingerprints[k].hash >= 0
                     /\ call.fingerprints[k].hash < 268435456

(* Fingerprints were emitted for a pair whose anchor is in bin 2^10, for a  *)
(* pair whose target is in bin 2^10 and for a pair more than 2^8 frames     *)
(* apart.                                                                   *)
C18_Witness ==
    /\ call.op = "create_hashes"
    /\ \E pair \in AcceptedPairs(call) : call.peaks[pair[1]].freq_bin_idx >= 1024
    /\ \E pair \in AcceptedPairs(call) : call.peaks[pair[2]].freq_bin_idx >= 1024
    /\ \E pair \in AcceptedPairs(call) :
          call.peaks[pair[2]].time_idx - call.peaks[pair[1]].time_idx >= 256

(* Two accepted pairs of call c and their landmark geometry. *)
Triple(c, pair) ==
    <<c.peaks[pair[1]].freq_bin_idx, c.peaks[pair[2]].freq_bin_idx,
      c.peaks[pair[2]].time_idx - c.peaks[pair[1]].time_idx>>

HashOf(c, pair) ==
    LET k == CHOOSE n \in 1..Len(c.fingerprints) : PairAt(c, n) = pair
    IN  c.fingerprints[k].hash

(* C20: under the parameters main.rs passes (1025 bins per frame, dt in     *)
(* 1..50) two accepted pairs with the same hash have the same               *)
(* (f_anchor, f_target, dt).                                                *)
C20_HashLossless ==
    (/\ call.op = "create_hashes"
     /\ call.params = hashing_params
     /\ \A i \in 1..Len(call.peaks) : call.peaks[i].freq_bin_idx < 1025)
        => \A p, q \in AcceptedPairs(call) :
              HashOf(call, p) = HashOf(call, q) => Triple(call, p) = Triple(call, q)

----------------------------------------------------------------------------
(* create_spectrogram on sample buffers of every small length.  The sample  *)
(* at index j has the value j, so that a chunk shows which samples were     *)
(* read; the magnitude of a bin is kept as the pair of the bin and the      *)
(* chunk the FFT was taken of.                                              *)

MaxSamples == 12    \* samples.len()
MaxWindow == 5      \* window_size

(* Line 54, &samples[start..end]: the samples start .. end - 1, and a panic *)
(* when end is past the length of the slice.                                *)
audio_chunk(samples, start, end) ==
    IF end > Len(samples) THEN "range end index out of range"
    ELSE SubSeq(samples, start + 1, end)

(* Lines 52-60 for frame i (0-based): the buffer after fft.process, one     *)
(* entry per bin.                                                           *)
buffer(samples, i, window_size, hop_size) ==
    LET start == i * hop_size
        end == start + window_size
    IN  [k \in 1..window_size |->
            [bin |-> k - 1, audio_chunk |-> audio_chunk(samples, start, end)]]

(* The sample buffer with the FFT buffers of the frames the loop can reach. *)
SampleBuffer(len, window_size, hop_size) ==
    LET samples == [j \in 1..len |-> j - 1]
    IN  [len |-> len,
         fft |-> [i \in 1..(len + 1) |-> buffer(samples, i - 1, window_size, hop_size)]]

InitSpectrogram ==
    /\ schema = FALSE
    /\ songs = {}
    /\ fingerprints = EmptyBag
    /\ last_insert_rowid = 0
    /\ inflight = NoneInFlight
    /\ \E len \in 0..MaxSamples, window_size \in 1..MaxWindow :
          \E hop_size \in 1..window_size :
            call = [op |-> "samples", len |-> len,
                    window_size |-> window_size, hop_size |-> hop_size]

CreateSpectrogram ==
    /\ call.op = "samples"
    /\ call' = [op |-> "create_spectrogram", len |-> call.len,
                window_size |-> call.window_size, hop_size |-> call.hop_size,
                spectrogram |->
                    create_spectrogram(SampleBuffer(call.len, call.window_size, call.hop_size),
                                       call.window_size, call.hop_size)]
    /\ UNCHANGED <<schema, songs, fingerprints, last_insert_rowid, inflight>>

NextSpectrogram == CreateSpectrogram

SpecSpectrogram == InitSpectrogram /\ [][NextSpectrogram]_vars

(* C19: for 0 < H <= W, create_spectrogram of N samples returns no frame    *)
(* when N < W and floor((N - W) / H) + 1 frames when N >= W; every frame    *)
(* has the W/2 + 1 magnitudes of bins 0 .. W/2; frame i (0-based) is taken  *)
(* of the samples i*H .. i*H + W - 1 and of no other, and i*H + W <= N, so  *)
(* no frame reads past the end of the samples.                              *)
C19_FrameCount ==
    call.op = "create_spectrogram"
        => LET N == call.len
               W == call.window_size
               H == call.hop_size
               S == call.spectrogram
           IN  /\ N < W => S = <<>>
               /\ N >= W => Len(S) = ((N - W) \div H) + 1
               /\ \A i \in 0..(Len(S) - 1) :
                     /\ Len(S[i + 1]) = (W \div 2) + 1
                     /\ (i * H) + W <= N
                     /\ \A k \in 1..Len(S[i + 1]) :
                           /\ S[i + 1][k].bin = k - 1
                           /\ S[i + 1][k].audio_chunk = [j \in 1..W |-> (i * H) + j - 1]

(* A spectrogram of several overlapping frames, the last of which ends      *)
(* before the last sample; and the samples left over are fewer than a hop.  *)
C19_Witness ==
    /\ call.op = "create_spectrogram"
    /\ Len(call.spectrogram) >= 3
    /\ call.hop_size < call.window_size
    /\ ((Len(call.spectrogram) - 1) * call.hop_size) + call.window_size < call.len
    /\ (Len(call.spectrogram) * call.hop_size) + call.window_size > call.len

----------------------------------------------------------------------------
(* create_hashes on a peak sequence and on the same sequence later in time. *)

MaxShift == 2       \* frames by which the peaks are moved

Shifts == (0..MaxShift) \cup {2 ^ HASH_DELTA_TIME_BITS}

Reverse(seq) == [i \in 1..Len(seq) |-> seq[Len(seq) + 1 - i]]

(* Peak sequences in the order of find_peaks and in the opposite order. *)
PeakSequences == PeakLists \cup {Reverse(peaks) : peaks \in PeakLists}

(* The peaks with every time_idx increased by k. *)
Later(peaks, k) ==
    [i \in 1..Len(peaks) |-> [peaks[i] EXCEPT !.time_idx = peaks[i].time_idx + k]]

InitShift ==
    /\ schema = FALSE
    /\ songs = {}
    /\ fingerprints = EmptyBag
    /\ last_insert_rowid = 0
    /\ inflight = NoneInFlight
    /\ \E peaks \in PeakSequences, params \in HashingParams, k \in Shifts :
            call = [op |-> "peaks", peaks |-> peaks, params |-> params, k |-> k]

(* Two calls: on the peaks and on the peaks k frames later. *)
CreateHashesTwice ==
    /\ call.op = "peaks"
    /\ call' = [op |-> "create_hashes", peaks |-> call.peaks, params |-> call.params,
                k |-> call.k,
                fingerprints |-> create_hashes(call.peaks, call.params[1], call.params[2],
                                               call.params[3], call.params[4]),
                later |-> create_hashes(Later(call.peaks, call.k), call.params[1],
                                        call.params[2], call.params[3], call.params[4])]
    /\ UNCHANGED <<schema, songs, fingerprints, last_insert_rowid, inflight>>

NextShift == CreateHashesTwice

SpecShift == InitShift /\ [][NextShift]_vars

(* C21: create_hashes of the peaks P with every time_idx increased by k     *)
(* returns as many fingerprints as create_hashes of P, with the same hash   *)
(* at every position and the anchor_time_idx increased by k.                *)
C21_OffsetInvariance ==
    call.op = "create_hashes"
        => /\ Len(call.later) = Len(call.fingerprints)
           /\ \A n \in 1..Len(call.fingerprints) :
                 /\ call.later[n].hash = call.fingerprints[n].hash
                 /\ call.later[n].anchor_time_idx
                       = call.fingerprints[n].anchor_time_idx + call.k

(* Peaks moved by 2^8 frames, more than the time field of the hash holds,   *)
(* gave fingerprints, one of them for a pair of peaks in different frames.  *)
C21_Witness ==
    /\ call.op = "create_hashes"
    /\ call.k >= 256
    /\ Len(call.later) >= 2
    /\ \E n \in 1..Len(call.later) : call.later[n].hash % 256 # 0
    /\ \E n \in 1..Len(call.later) : call.later[n].anchor_time_idx > call.k

----------------------------------------------------------------------------
(* find_peaks and create_hashes in a row, as enroll_song (142-147) and      *)
(* main (179-181) call them, on small spectrograms.                         *)

(* The parameters of main.rs, and the same with dt_min 0 and one pair per   *)
(* anchor.                                                                  *)
OrderParams ==
    {hashing_params,
     <<0, TARGET_ZONE_DT_MAX_FRAMES, TARGET_ZONE_DF_ABS_MAX_BINS, 1>>}

(* The threshold: magnitudes below it, equal to it and above it occur. *)
OrderThresholds == {1}

InitOrder ==
    /\ schema = FALSE
    /\ songs = {}
    /\ fingerprints = EmptyBag
    /\ last_insert_rowid = 0
    /\ inflight = NoneInFlight
    /\ \E spectrogram \in Spectrograms, time_radius \in Radii, freq_radius \in Radii,
          min_magnitude_threshold \in OrderThresholds, params \in OrderParams :
            call = [op |-> "spectrogram", spectrogram |-> spectrogram,
                    time_radius |-> time_radius, freq_radius |-> freq_radius,
                    min_magnitude_threshold |-> min_magnitude_threshold,
                    params |-> params]

FindPeaksCreateHashes ==
    /\ call.op = "spectrogram"
    /\ LET peaks == find_peaks(call.spectrogram, call.time_radius,
                               call.freq_radius, call.min_magnitude_threshold)
       IN  call' = [op |-> "create_hashes", peaks |-> peaks, params |-> call.params,
                    fingerprints |-> create_hashes(peaks, call.params[1], call.params[2],
                                                   call.params[3], call.params[4])]
    /\ UNCHANGED <<schema, songs, fingerprints, last_insert_rowid, inflight>>

NextOrder == FindPeaksCreateHashes

SpecOrder == InitOrder /\ [][NextOrder]_vars

Landmark(c, pair) ==
    <<c.peaks[pair[1]].time_idx, c.peaks[pair[1]].freq_bin_idx,
      c.peaks[pair[2]].time_idx, c.peaks[pair[2]].freq_bin_idx>>

RECURSIVE LexLess(_, _)
LexLess(x, y) ==
    /\ x # <<>>
    /\ \/ Head(x) < Head(y)
       \/ Head(x) = Head(y) /\ LexLess(Tail(x), Tail(y))

(* The position in the output of the fingerprint of a pair among pairs. *)
PositionOf(pairs, pair) == Cardinality({q \in pairs : Precedes(q, pair)}) + 1

====
